---- MODULE Spec2Model ----
(***************************************************************************)
(* A model of the blog-post HTTP service: the document schema and its      *)
(* public view (models.js), the five route handlers and the start/stop     *)
(* lifecycle (server.js).  JSON values are tagged records, strings are     *)
(* sequences of one-character strings, a request body is a function from   *)
(* the keys it carries to their values.                                    *)
(***************************************************************************)
EXTENDS Integers, Sequences, FiniteSets, TLC

VARIABLES
    store,      \* the BlogPosts collection: _id -> stored document
    nextId,     \* the next _id the store hands out
    now,        \* the store's clock (Date.now), advanced by each create
    req,        \* the request handled last
    res,        \* the response sent to it
    call,       \* the store operation that request issued, and its outcome
    deleted,    \* the ids a DELETE answered 204 for while they were stored
    fresh,      \* id -> the body of the 201 that created it, while the
                \* document has been neither updated nor deleted since
    conn,       \* mongoose's connection state
    server,     \* the global `server` handle (0: undefined)
    listeners,  \* the http.Server objects app.listen has made, in order
    startPc,    \* where the runServer call in flight (or settled last) is
    stopPc,     \* where the closeServer call in flight (or settled last) is
    teardown,   \* the unawaited mongoose.disconnect() of the bind-error handler
    viewIn,     \* the author value given to the authorString getter
    viewOut     \* what the getter returned for it

crudVars == <<store, nextId, now, req, res, call, deleted, fresh>>
lifeVars == <<conn, server, listeners, startPc, stopPc, teardown>>
viewVars == <<viewIn, viewOut>>
vars == <<store, nextId, now, req, res, call, deleted, fresh,
          conn, server, listeners, startPc, stopPc, teardown, viewIn, viewOut>>

---------------------------------------------------------------------------
(* Bounds of the model. *)

\* the number of documents the CRUD specifications create
MaxId == 2
\* the number of documents the update specification creates
MaxDocs == 1
\* the number of documents the list specification creates beyond the limit
MaxOver == 1
\* the number of runServer calls of the lifecycle specification
MaxStarts == 3
\* the longest firstName / lastName of the view specification
MaxLen == 2

---------------------------------------------------------------------------
(* JSON / JavaScript values. *)

Null == [t |-> "null"]
Undefined == [t |-> "undefined"]
Str(s) == [t |-> "str", s |-> s]
Obj(f) == [t |-> "obj", f |-> f]
\* a key the body does not carry (used only to build bodies)
Absent == [t |-> "absent"]
NoKeys == [k \in {} |-> Null]

\* the Date the default of created makes at clock value n
DateAt(n) == [t |-> "date", n |-> n]

\* the string a path or body id is, for the document the store numbers n
IdStr(n) == [t |-> "id", n |-> n]

\* JavaScript truthiness of a value
Truthy(v) == ~(v.t \in {"null", "undefined"}) /\ v # Str(<<>>)

\* `${v}`: the string a template literal makes of a value
TemplateString(v) ==
    CASE v.t = "str" -> v.s
      [] v.t = "undefined" -> <<"u", "n", "d", "e", "f", "i", "n", "e", "d">>
      [] v.t = "null" -> <<"n", "u", "l", "l">>
      [] OTHER -> <<"[", "o", "b", "j", "e", "c", "t", " ", "O", "b", "j", "e", "c", "t", "]">>

\* v[k]: property access; a string or other primitive has no such property
GetProp(v, k) ==
    IF v.t = "obj" /\ k \in DOMAIN v.f THEN v.f[k] ELSE Undefined

\* v.k throws a TypeError
PropThrows(v) == v.t \in {"null", "undefined"}

IsSpace(c) == c = " "

RECURSIVE TrimLeft(_)
TrimLeft(s) ==
    IF s # <<>> /\ IsSpace(Head(s)) THEN TrimLeft(Tail(s)) ELSE s

RECURSIVE TrimRight(_)
TrimRight(s) ==
    IF s # <<>> /\ IsSpace(s[Len(s)]) THEN TrimRight(SubSeq(s, 1, Len(s) - 1)) ELSE s

\* String.prototype.trim
Trim(s) == TrimRight(TrimLeft(s))

---------------------------------------------------------------------------
(* models.js: the schema, the authorString virtual and serialize. *)

\* the authorString getter, on a document whose author is `author`
authorString(author) ==
    Trim(TemplateString(GetProp(author, "firstName")) \o <<" ">>
         \o TemplateString(GetProp(author, "lastName")))

\* serialize() throws: the getter reads a property of null
serializeThrows(doc) == PropThrows(doc.author)

\* the public view of the document stored under id
serialize(id, doc) ==
    [id |-> id, title |-> doc.title, content |-> doc.content,
     author |-> Str(authorString(doc.author)), created |-> doc.created]

\* casting a value to the schema type of a path: String paths take strings
\* (null stays null), the Object (Mixed) path takes any value
CastFails(field, v) ==
    field \in {"title", "content"} /\ ~(v.t \in {"str", "null", "undefined"})

\* required: true -- a String path needs a non-empty string, any other path
\* a value that is neither null nor undefined
RequiredOk(field, v) ==
    IF field \in {"title", "content"}
    THEN v.t = "str" /\ v.s # <<>>
    ELSE ~(v.t \in {"null", "undefined"})

SchemaPaths == {"title", "content", "author"}

\* the document create() validates: rejected on a cast or a required failure
blogpostSchemaRejects(fields) ==
    \E f \in SchemaPaths : CastFails(f, fields[f]) \/ ~RequiredOk(f, fields[f])

---------------------------------------------------------------------------
(* server.js: what the handlers compute. *)

\* .limit(10)
Limit == 10

requiredFields == <<"title", "content", "author">>
updateableFields == <<"title", "content", "author">>

BodyKeys == {"id", "title", "content", "author", "created"}

\* the body carrying exactly the keys whose option is not Absent
MkBody(o) == [k \in {k \in BodyKeys : o[k] # Absent} |-> o[k]]

\* req.body.k (undefined when the body does not carry k)
BodyProp(body, k) == IF k \in DOMAIN body THEN body[k] ELSE Undefined

\* a POST loop that reports the last missing field instead of the first
LastMissing(body) ==
    IF \A i \in 1..Len(requiredFields) : requiredFields[i] \in DOMAIN body
    THEN 0
    ELSE CHOOSE i \in 1..Len(requiredFields) :
            /\ ~(requiredFields[i] \in DOMAIN body)
            /\ \A j \in (i + 1)..Len(requiredFields) : requiredFields[j] \in DOMAIN body

\* the POST loop: the index of the first required field not `in` the body, or 0
FirstMissing(body) ==
    IF \A i \in 1..Len(requiredFields) : requiredFields[i] \in DOMAIN body
    THEN 0
    ELSE CHOOSE i \in 1..Len(requiredFields) :
            /\ ~(requiredFields[i] \in DOMAIN body)
            /\ \A j \in 1..(i - 1) : requiredFields[j] \in DOMAIN body

\* the message text, with the field name where the template puts it
MissingMessage(field) == <<"Missing ", field, " in request body">>

\* a PUT guard that forgets the comparison of the two ids
IdsPresent(id, body) ==
    /\ Truthy(IdStr(id))
    /\ Truthy(BodyProp(body, "id"))

\* the PUT guard: req.params.id && req.body.id && req.params.id === req.body.id
IdsMatch(id, body) ==
    /\ Truthy(IdStr(id))
    /\ Truthy(BodyProp(body, "id"))
    /\ IdStr(id) = BodyProp(body, "id")

MismatchMessage(id, body) ==
    <<"Request path id (", IdStr(id), ") and request body id (",
      BodyProp(body, "id"), ") must match">>

\* a toUpdate that copies every key of the body
ToUpdateAll(body) == body

\* toUpdate: the updateable fields the body carries
ToUpdate(body) ==
    [f \in {updateableFields[i] : i \in 1..Len(updateableFields)} \cap DOMAIN body
        |-> body[f]]

\* the document create() is given
CreateFields(body) ==
    [title |-> body["title"], content |-> body["content"], author |-> body["author"]]

\* { $set: toUpdate } applied to a stored document
ApplySet(doc, toUpdate) ==
    [k \in DOMAIN doc |-> IF k \in DOMAIN toUpdate THEN toUpdate[k] ELSE doc[k]]

\* findByIdAndUpdate casts the update to the schema and rejects on a failure
UpdateRejects(toUpdate) ==
    \E f \in DOMAIN toUpdate : CastFails(f, toUpdate[f])

\* the _id the store gives the next document
NewId(st, nid) == nid

Min(a, b) == IF a < b THEN a ELSE b

\* a find() whose limit is lost
FindAll(st, n) == {DOMAIN st}

\* the results find().limit(n) may hand back: any n of the documents (all of
\* them when there are fewer); the natural order is the store's choice
FindLimit(st, n) ==
    {S \in SUBSET DOMAIN st : Cardinality(S) = Min(n, Cardinality(DOMAIN st))}

RECURSIVE Ascending(_)
Ascending(S) ==
    IF S = {} THEN <<>>
    ELSE LET m == CHOOSE x \in S : \A y \in S : x <= y
         IN <<m>> \o Ascending(S \ {m})

\* responses
Respond(status, body) == [status |-> status, body |-> body]
Json(message) == [t |-> "json", message |-> message]
Text(text) == [t |-> "text", text |-> text]
Empty == [t |-> "empty"]
View(v) == [t |-> "view", view |-> v]
List(l) == [t |-> "list", blogposts |-> l]
InternalServerError == Respond(500, Json(<<"Internal server error">>))

NoCall == [op |-> "none", ok |-> TRUE]
StoreCall(op, ok) == [op |-> op, ok |-> ok]
Request(op, id, body) == [op |-> op, id |-> id, body |-> body]

\* requests are served while a listener is bound
Serving == \E i \in DOMAIN listeners : listeners[i] = "listening"

---------------------------------------------------------------------------
(* server.js: the route handlers.  ok is whether the store fulfils the      *)
(* promise of the call the handler makes (FALSE: it rejects, for a reason  *)
(* of its own); a handler that returns before any call takes ok = TRUE.    *)
(* cap bounds the documents a specification creates.                       *)

\* GET /blog-posts
GetAll(ok, S) ==
    /\ Serving
    /\ S \in FindLimit(store, Limit)
    /\ req' = Request("GETALL", 0, NoKeys)
    /\ call' = StoreCall("find", ok)
    /\ res' = IF ~ok \/ \E id \in S : serializeThrows(store[id])
              THEN InternalServerError
              ELSE LET ids == Ascending(S)
                   IN Respond(200, List([i \in 1..Len(ids) |->
                                            serialize(ids[i], store[ids[i]])]))
    /\ UNCHANGED <<store, nextId, now, deleted, fresh>>
    /\ UNCHANGED <<lifeVars, viewVars>>

\* a GET /blog-posts/:id that sends the document without serialize()
GetByIdRaw(id, ok) ==
    /\ Serving
    /\ req' = Request("GET", id, NoKeys)
    /\ call' = StoreCall("findById", ok)
    /\ res' = IF ~ok \/ ~(id \in DOMAIN store)
              THEN InternalServerError
              ELSE Respond(200, View([id |-> id, title |-> store[id].title,
                                      content |-> store[id].content,
                                      author |-> store[id].author,
                                      created |-> store[id].created]))
    /\ UNCHANGED <<store, nextId, now, deleted, fresh>>
    /\ UNCHANGED <<lifeVars, viewVars>>

\* GET /blog-posts/:id
GetById(id, ok) ==
    /\ Serving
    /\ req' = Request("GET", id, NoKeys)
    /\ call' = StoreCall("findById", ok)
    /\ res' = IF ~ok \/ ~(id \in DOMAIN store) \/ serializeThrows(store[id])
              THEN InternalServerError
              ELSE Respond(200, View(serialize(id, store[id])))
    /\ UNCHANGED <<store, nextId, now, deleted, fresh>>
    /\ UNCHANGED <<lifeVars, viewVars>>

\* POST /blog-posts
Post(body, ok, cap) ==
    /\ Serving
    /\ req' = Request("POST", 0, body)
    /\ IF FirstMissing(body) # 0
       THEN /\ ok
            /\ res' = Respond(400, Text(MissingMessage(requiredFields[FirstMissing(body)])))
            /\ call' = NoCall
            /\ UNCHANGED <<store, nextId, now, fresh>>
       ELSE LET fields == CreateFields(body)
                created == ok /\ ~blogpostSchemaRejects(fields)
                id == NewId(store, nextId)
                doc == [title |-> fields.title, content |-> fields.content,
                        author |-> fields.author, created |-> DateAt(now)]
            IN /\ created => nextId <= cap
               /\ call' = StoreCall("create", created)
               /\ IF created
                  THEN /\ store' = [i \in DOMAIN store \cup {id} |->
                                        IF i = id THEN doc ELSE store[i]]
                       /\ nextId' = nextId + 1
                       /\ now' = now + 1
                       /\ res' = IF serializeThrows(doc)
                                 THEN InternalServerError
                                 ELSE Respond(201, View(serialize(id, doc)))
                       /\ fresh' = IF serializeThrows(doc)
                                   THEN fresh
                                   ELSE [i \in DOMAIN fresh \cup {id} |->
                                            IF i = id THEN View(serialize(id, doc))
                                            ELSE fresh[i]]
                  ELSE /\ res' = InternalServerError
                       /\ UNCHANGED <<store, nextId, now, fresh>>
    /\ UNCHANGED deleted
    /\ UNCHANGED <<lifeVars, viewVars>>

\* PUT /blog-posts/:id
Put(id, body, ok) ==
    /\ Serving
    /\ req' = Request("PUT", id, body)
    /\ IF ~IdsMatch(id, body)
       THEN /\ ok
            /\ res' = Respond(400, Json(MismatchMessage(id, body)))
            /\ call' = NoCall
            /\ UNCHANGED <<store, fresh>>
       ELSE LET toUpdate == ToUpdate(body)
                done == ok /\ ~UpdateRejects(toUpdate)
            IN /\ call' = StoreCall("findByIdAndUpdate", done)
               /\ res' = IF done THEN Respond(204, Empty) ELSE InternalServerError
               /\ store' = IF done /\ id \in DOMAIN store
                           THEN [store EXCEPT ![id] = ApplySet(@, toUpdate)]
                           ELSE store
               /\ fresh' = IF done /\ id \in DOMAIN store
                           THEN [i \in DOMAIN fresh \ {id} |-> fresh[i]]
                           ELSE fresh
    /\ UNCHANGED <<nextId, now, deleted>>
    /\ UNCHANGED <<lifeVars, viewVars>>

\* a DELETE that answers 204 and leaves the document in the store
DeleteKeeps(id, ok) ==
    /\ Serving
    /\ req' = Request("DELETE", id, NoKeys)
    /\ call' = StoreCall("findByIdAndRemove", ok)
    /\ res' = IF ok THEN Respond(204, Empty) ELSE InternalServerError
    /\ deleted' = IF ok /\ id \in DOMAIN store THEN deleted \cup {id} ELSE deleted
    /\ fresh' = IF ok THEN [i \in DOMAIN fresh \ {id} |-> fresh[i]] ELSE fresh
    /\ UNCHANGED <<store, nextId, now>>
    /\ UNCHANGED <<lifeVars, viewVars>>

\* DELETE /blog-posts/:id
Delete(id, ok) ==
    /\ Serving
    /\ req' = Request("DELETE", id, NoKeys)
    /\ call' = StoreCall("findByIdAndRemove", ok)
    /\ res' = IF ok THEN Respond(204, Empty) ELSE InternalServerError
    /\ store' = IF ok THEN [i \in DOMAIN store \ {id} |-> store[i]] ELSE store
    /\ deleted' = IF ok /\ id \in DOMAIN store THEN deleted \cup {id} ELSE deleted
    /\ fresh' = IF ok THEN [i \in DOMAIN fresh \ {id} |-> fresh[i]] ELSE fresh
    /\ UNCHANGED <<nextId, now>>
    /\ UNCHANGED <<lifeVars, viewVars>>

---------------------------------------------------------------------------
(* server.js: runServer and closeServer.  Each call is a chain of          *)
(* callbacks; startPc and stopPc say which callback is awaited.  A caller  *)
(* makes one lifecycle call at a time, and a new call forgets the call of  *)
(* the other kind that settled before it.                                  *)

Settled(pc) == ~(pc \in {"connecting", "binding", "disconnecting", "closing"})

Live(i) == listeners[i] = "listening"

\* mongoose.disconnect() begins: an open connection starts closing
BeginDisconnect(c) == IF c = "connected" THEN "disconnecting" ELSE c

\* runServer(databaseUrl, port): mongoose.connect is called
RunServer ==
    /\ Settled(startPc) /\ Settled(stopPc)
    /\ teardown = "none"
    /\ Len(listeners) < MaxStarts
    /\ startPc' = "connecting"
    /\ stopPc' = "idle"
    /\ conn' = IF conn = "connected" THEN conn ELSE "connecting"
    /\ UNCHANGED <<server, listeners, teardown>>
    /\ UNCHANGED <<crudVars, viewVars>>

\* the connect callback: reject(err), or server = app.listen(port, ...)
ConnectDone(ok) ==
    /\ startPc = "connecting"
    /\ ok \/ conn = "connecting"
    /\ IF ok
       THEN /\ conn' = "connected"
            /\ listeners' = Append(listeners, "binding")
            /\ server' = Len(listeners) + 1
            /\ startPc' = "binding"
       ELSE /\ conn' = "disconnected"
            /\ startPc' = "rejectedConnect"
            /\ UNCHANGED <<server, listeners>>
    /\ UNCHANGED <<stopPc, teardown>>
    /\ UNCHANGED <<crudVars, viewVars>>

\* the port is free: no listener of this process holds it (free: nor does
\* any other process)
CanBind(free) == free /\ \A i \in DOMAIN listeners : ~Live(i)

\* the listening callback (resolve), or the "error" handler:
\* mongoose.disconnect(); reject(err)
ListenDone(free) ==
    /\ startPc = "binding"
    /\ IF CanBind(free)
       THEN /\ listeners' = [listeners EXCEPT ![server] = "listening"]
            /\ startPc' = "resolved"
            /\ UNCHANGED <<conn, teardown>>
       ELSE /\ listeners' = [listeners EXCEPT ![server] = "failed"]
            /\ conn' = BeginDisconnect(conn)
            /\ teardown' = "pending"
            /\ startPc' = "rejectedBind"
    /\ UNCHANGED <<server, stopPc>>
    /\ UNCHANGED <<crudVars, viewVars>>

\* the disconnect the error handler started completes; nothing awaits it
TeardownDone(ok) ==
    /\ teardown = "pending"
    /\ ok \/ conn = "disconnecting"
    /\ teardown' = "none"
    /\ conn' = IF ok THEN "disconnected" ELSE "connected"
    /\ UNCHANGED <<server, listeners, startPc, stopPc>>
    /\ UNCHANGED <<crudVars, viewVars>>

\* closeServer(): mongoose.disconnect() is called
CloseServer ==
    /\ Settled(startPc) /\ Settled(stopPc)
    /\ stopPc' = "disconnecting"
    /\ startPc' = "idle"
    /\ conn' = BeginDisconnect(conn)
    /\ UNCHANGED <<server, listeners, teardown>>
    /\ UNCHANGED <<crudVars, viewVars>>

\* disconnect() settles: rejected, closeServer rejects with it; fulfilled,
\* the .then callback calls server.close
StopDisconnectDone(ok) ==
    /\ stopPc = "disconnecting"
    /\ ok \/ conn = "disconnecting"
    /\ IF ~ok
       THEN /\ conn' = "connected"
            /\ stopPc' = "rejected"
       ELSE /\ conn' = "disconnected"
            /\ stopPc' = IF server # 0 /\ Live(server) THEN "closing" ELSE "rejected"
    /\ UNCHANGED <<server, listeners, startPc, teardown>>
    /\ UNCHANGED <<crudVars, viewVars>>

\* the close callback of a listening server: resolve()
StopCloseDone ==
    /\ stopPc = "closing"
    /\ listeners' = [listeners EXCEPT ![server] = "closed"]
    /\ stopPc' = "resolved"
    /\ UNCHANGED <<conn, server, startPc, teardown>>
    /\ UNCHANGED <<crudVars, viewVars>>

---------------------------------------------------------------------------
(* The authorString getter as a function of the author value. *)

NotComputed == [t |-> "none"]
Threw == [t |-> "throw"]

ComputeView ==
    /\ viewOut = NotComputed
    /\ viewOut' = IF PropThrows(viewIn) THEN Threw ELSE Str(authorString(viewIn))
    /\ UNCHANGED viewIn
    /\ UNCHANGED <<crudVars, lifeVars>>

---------------------------------------------------------------------------
(* Inputs. *)

Chars == {" ", "J", "D"}
Strings(n) == UNION {[1..k -> Chars] : k \in 0..n}

\* author objects with firstName and lastName each absent or a short string
NameOpts == {Absent} \cup {Str(s) : s \in Strings(MaxLen)}
MkAuthor(fn, ln) ==
    Obj([k \in {k \in {"firstName", "lastName"} :
                    (IF k = "firstName" THEN fn ELSE ln) # Absent}
            |-> IF k = "firstName" THEN fn ELSE ln])
ViewAuthors ==
    {MkAuthor(fn, ln) : fn \in NameOpts, ln \in NameOpts}
        \cup {Null, Str(<<"J">>), Str(<<>>)}

JDoe == MkAuthor(Str(<<"J">>), Str(<<"D">>))
OnlyDoe == MkAuthor(Absent, Str(<<"D">>))

FullBody(t) ==
    MkBody([id |-> Absent, title |-> t, content |-> Str(<<"B">>),
            author |-> JDoe, created |-> Absent])

PathIds == 1..MaxId

\* bodies of the main specification: an id or none, a title or none, and
\* content and author either both or neither
Bodies ==
    {MkBody([id |-> i, title |-> t, content |-> r[1], author |-> r[2], created |-> Absent]) :
        i \in {Absent} \cup {IdStr(n) : n \in PathIds},
        t \in {Absent, Str(<<"A">>), Str(<<"Z">>)},
        r \in {<<Absent, Absent>>, <<Str(<<"B">>), JDoe>>}}

\* path ids of the update specification
UpdateIds == 1..MaxDocs

\* bodies of the update specification: every subset of the updateable
\* fields, with and without a created key, under no id, a null id, each
\* path id and an id no document has
UpdateBodies ==
    {MkBody([id |-> i, title |-> t, content |-> c, author |-> a, created |-> cr]) :
        i \in {Absent, Null, IdStr(0)} \cup {IdStr(n) : n \in UpdateIds},
        t \in {Absent, Str(<<"Z">>)},
        c \in {Absent, Str(<<"Y">>)},
        a \in {Absent, OnlyDoe},
        cr \in {Absent, Str(<<"0">>)}}

\* bodies of the create specification
CreateBodies ==
    {MkBody([id |-> Absent, title |-> t, content |-> c, author |-> a, created |-> Absent]) :
        t \in {Absent, Null, Str(<<>>), Str(<<"A">>), Obj(NoKeys)},
        c \in {Absent, Null, Str(<<>>), Str(<<"B">>)},
        a \in {Absent, Null, Str(<<>>), Str(<<"J">>), Obj(NoKeys), OnlyDoe, JDoe}}

\* the body of the list specification
ListBody == FullBody(Str(<<"A">>))

---------------------------------------------------------------------------
(* Specifications. *)

InitCrud ==
    /\ store = [i \in {} |-> Null]
    /\ nextId = 1
    /\ now = 1
    /\ req = Request("none", 0, NoKeys)
    /\ res = Respond(0, Empty)
    /\ call = NoCall
    /\ deleted = {}
    /\ fresh = [i \in {} |-> Empty]

\* runServer has resolved
InitRunning ==
    /\ conn = "connected"
    /\ server = 1
    /\ listeners = <<"listening">>
    /\ startPc = "resolved"
    /\ stopPc = "idle"
    /\ teardown = "none"

\* the module is loaded, runServer not called yet
InitStopped ==
    /\ conn = "disconnected"
    /\ server = 0
    /\ listeners = <<>>
    /\ startPc = "idle"
    /\ stopPc = "idle"
    /\ teardown = "none"

InitNoView ==
    /\ viewIn = Null
    /\ viewOut = NotComputed

Init == InitCrud /\ InitRunning /\ InitNoView

Next ==
    \/ \E ok \in BOOLEAN : \E S \in SUBSET DOMAIN store : GetAll(ok, S)
    \/ \E id \in PathIds, ok \in BOOLEAN : GetById(id, ok)
    \/ \E body \in Bodies, ok \in BOOLEAN : Post(body, ok, MaxId)
    \/ \E id \in PathIds, body \in Bodies, ok \in BOOLEAN : Put(id, body, ok)
    \/ \E id \in PathIds, ok \in BOOLEAN : Delete(id, ok)

Spec == Init /\ [][Next]_vars

NextCreate ==
    \/ \E body \in CreateBodies, ok \in BOOLEAN : Post(body, ok, MaxDocs)
    \/ \E id \in UpdateIds, ok \in BOOLEAN : GetById(id, ok)
    \/ \E id \in UpdateIds, ok \in BOOLEAN : Delete(id, ok)

SpecCreate == Init /\ [][NextCreate]_vars

NextUpdate ==
    \/ \E ok \in BOOLEAN : Post(FullBody(Str(<<"A">>)), ok, MaxDocs)
    \/ \E id \in UpdateIds, body \in UpdateBodies, ok \in BOOLEAN : Put(id, body, ok)
    \/ \E id \in UpdateIds, ok \in BOOLEAN : GetById(id, ok)
    \/ \E id \in UpdateIds, ok \in BOOLEAN : Delete(id, ok)

SpecUpdate == Init /\ [][NextUpdate]_vars

NextList ==
    \/ \E ok \in BOOLEAN : Post(ListBody, ok, Limit + MaxOver)
    \/ \E ok \in BOOLEAN : \E S \in SUBSET DOMAIN store : GetAll(ok, S)
    \/ \E id \in PathIds, ok \in BOOLEAN : Delete(id, ok)

SpecList == Init /\ [][NextList]_vars

InitView ==
    /\ InitCrud /\ InitRunning
    /\ viewIn \in ViewAuthors
    /\ viewOut = NotComputed

SpecView == InitView /\ [][ComputeView]_vars

InitLife == InitCrud /\ InitStopped /\ InitNoView

NextLife ==
    \/ RunServer
    \/ \E ok \in BOOLEAN : ConnectDone(ok)
    \/ \E free \in BOOLEAN : ListenDone(free)
    \/ \E ok \in BOOLEAN : TeardownDone(ok)
    \/ CloseServer
    \/ \E ok \in BOOLEAN : StopDisconnectDone(ok)
    \/ StopCloseDone

SpecLife == InitLife /\ [][NextLife]_vars

---------------------------------------------------------------------------
(* The claims. *)

BodyIdDiffers(r) == ~("id" \in DOMAIN r.body) \/ r.body["id"] # IdStr(r.id)

\* C1: a PUT whose body id is absent or differs from the path id is answered
\* 400 with a JSON message, issues no store operation and leaves every stored
\* record as it was.
PutMismatchRejected ==
    [][(req'.op = "PUT" /\ BodyIdDiffers(req'))
         => /\ res'.status = 400
            /\ res'.body.t = "json"
            /\ call' = NoCall
            /\ store' = store]_vars

\* C1 witness: a 400 to a PUT that names a stored record in its path and
\* another id in its body.
PutMismatchSeen ==
    /\ req.op = "PUT"
    /\ req.id \in DOMAIN store
    /\ "id" \in DOMAIN req.body /\ req.body["id"] = IdStr(0)
    /\ "title" \in DOMAIN req.body
    /\ res.status = 400

\* C2: a PUT with matching ids on a stored record is answered 204 with an
\* empty body when the store fulfils the update, and then the record differs
\* from the one before only in the fields of title, content, author the body
\* carries; id and created never change, whatever the body carries, and a
\* rejected update (500) changes nothing.
PutChangesOnlySentFields ==
    [][(req'.op = "PUT" /\ ~BodyIdDiffers(req') /\ req'.id \in DOMAIN store)
         => LET b == req'.body
                id == req'.id
            IN /\ DOMAIN store' = DOMAIN store
               /\ \A i \in DOMAIN store \ {id} : store'[i] = store[i]
               /\ store'[id].created = store[id].created
               /\ call'.ok =>
                    /\ res' = Respond(204, Empty)
                    /\ \A f \in {"title", "content", "author"} :
                          store'[id][f] = IF f \in DOMAIN b THEN b[f] ELSE store[id][f]
               /\ ~call'.ok =>
                    /\ res' = InternalServerError
                    /\ store' = store]_vars

\* C2 witness: a 204 to a PUT that carried title and created but no content:
\* the title is the new one, content and created are those of the create.
PutPartialSeen ==
    /\ req.op = "PUT" /\ res.status = 204
    /\ req.id \in DOMAIN store
    /\ DOMAIN req.body = {"id", "title", "created"}
    /\ store[req.id].title = Str(<<"Z">>)
    /\ store[req.id].content = Str(<<"B">>)
    /\ store[req.id].author = JDoe
    /\ store[req.id].created = DateAt(1)

FirstOfTitleContentAuthor(b) ==
    IF ~("title" \in DOMAIN b) THEN "title"
    ELSE IF ~("content" \in DOMAIN b) THEN "content" ELSE "author"

\* C3: a POST whose body lacks one of title, content, author is answered 400
\* with the message naming the first missing one in that order; no store call
\* is made and no record is created.
PostMissingRejected ==
    [][(req'.op = "POST" /\ ~({"title", "content", "author"} \subseteq DOMAIN req'.body))
         => /\ res' = Respond(400, Text(<<"Missing ",
                                          FirstOfTitleContentAuthor(req'.body),
                                          " in request body">>))
            /\ call' = NoCall
            /\ store' = store
            /\ nextId' = nextId]_vars

\* C3 witness: a body with a title and neither content nor author is told
\* that content is missing.
PostMissingSeen ==
    /\ req.op = "POST"
    /\ DOMAIN req.body = {"title"}
    /\ res = Respond(400, Text(<<"Missing ", "content", " in request body">>))
    /\ DOMAIN store # {}

\* C4: a GET /blog-posts/:id of a record that has been neither updated nor
\* deleted since its create answered 201 returns 200 with the body of that
\* 201 (500 when the store rejects the lookup).
GetEqualsCreate ==
    (req.op = "GET" /\ req.id \in DOMAIN fresh)
        => /\ call.ok => res = Respond(200, fresh[req.id])
           /\ ~call.ok => res = InternalServerError

\* C4 witness: the second record is read back after the first was updated.
GetAfterCreateSeen ==
    /\ req.op = "GET" /\ req.id = 2
    /\ 2 \in DOMAIN fresh
    /\ 1 \in DOMAIN store /\ ~(1 \in DOMAIN fresh)
    /\ res.status = 200
    /\ res.body.view.author = Str(<<"J", " ", "D">>)

\* C5: once a DELETE answered 204 for a stored id, the record stays gone:
\* every later GET of that id is answered 500 "Internal server error" and no
\* GET /blog-posts result holds the id.
DeletedStaysGone ==
    /\ deleted \cap DOMAIN store = {}
    /\ (req.op = "GET" /\ req.id \in deleted) => res = InternalServerError
    /\ (req.op = "GETALL" /\ res.status = 200)
         => \A i \in 1..Len(res.body.blogposts) :
               ~(res.body.blogposts[i].id \in deleted)

\* C5 witness: a lookup the store fulfilled, of a deleted id, after a later
\* create, is answered 500.
GetDeletedSeen ==
    /\ req.op = "GET" /\ req.id \in deleted
    /\ call.ok
    /\ DOMAIN store # {}
    /\ res.status = 500

\* C6: whenever closeServer has settled, the store connection is torn down
\* and no HTTP listener is left bound.
StopReleasesBoth ==
    stopPc \in {"resolved", "rejected"}
        => /\ conn = "disconnected"
           /\ \A i \in DOMAIN listeners : ~Live(i)

\* C7: runServer has resolved only with the connection open and its
\* listener bound; when it has rejected because the listener failed to bind,
\* the store connection is torn down and no listener is left bound.
StartAllOrNothing ==
    /\ startPc = "resolved" => (conn = "connected" /\ Live(server))
    /\ startPc = "rejectedBind"
         => /\ conn = "disconnected"
            /\ \A i \in DOMAIN listeners : ~Live(i)

\* C8: a record the create endpoint has just stored has a non-empty title, a
\* non-empty content and a non-null author object.
CreatedRecordWellFormed ==
    (req.op = "POST" /\ call.op = "create" /\ call.ok)
        => LET d == store[nextId - 1]
           IN /\ d.title.t = "str" /\ d.title.s # <<>>
              /\ d.content.t = "str" /\ d.content.s # <<>>
              /\ d.author.t = "obj"

\* C9: a successful GET /blog-posts returns 200 with at most 10 items, each
\* the public view {id, title, content, author, created} of a record now
\* stored, its author the derived string and not the author object.
ListIsBoundedPublicViews ==
    (req.op = "GETALL" /\ res.status = 200)
        => LET l == res.body.blogposts
           IN /\ Len(l) <= 10
              /\ \A i \in 1..Len(l) :
                    /\ DOMAIN l[i] = {"id", "title", "content", "author", "created"}
                    /\ l[i].id \in DOMAIN store
                    /\ l[i].title = store[l[i].id].title
                    /\ l[i].content = store[l[i].id].content
                    /\ l[i].created = store[l[i].id].created
                    /\ l[i].author = Str(<<"J", " ", "D">>)
                    /\ l[i].author # store[l[i].id].author

\* C9 witness: a list of 10 out of more than 10 stored records.
ListCappedSeen ==
    /\ req.op = "GETALL" /\ res.status = 200
    /\ Cardinality(DOMAIN store) > 10
    /\ Len(res.body.blogposts) = 10

OrEmpty(a, k) == IF k \in DOMAIN a.f THEN a.f[k].s ELSE <<>>

\* C10: the author string of an author object is firstName, a space and
\* lastName, a missing one taken as empty, trimmed.
MissingNamesAreEmpty ==
    (viewOut # NotComputed /\ viewIn.t = "obj")
        => viewOut = Str(Trim(OrEmpty(viewIn, "firstName") \o <<" ">>
                              \o OrEmpty(viewIn, "lastName")))

====
